---- MODULE Spec2Model ----
(***************************************************************************)
(* Model of weather_bot.py: a scheduled job that scrapes the weather-story *)
(* page, fetches the image it names, compares the image's SHA-256 digest   *)
(* with the digest stored in a single DynamoDB item, posts the image to    *)
(* Telegram when the digests differ and then updates the item.             *)
(*                                                                         *)
(* Python values that may be None are modelled as options: None is the     *)
(* empty tuple and a present value v is the one-element tuple <<v>>.       *)
(***************************************************************************)
EXTENDS Integers, Sequences, FiniteSets, TLC

\* ------------------------------------------------------------------ bounds
\* Number of calendar days the wall clock may advance through.
MaxDay == 2

\* --------------------------------------------------------------- constants
\* weather_bot.py:132  "if now_eastern.hour < 3"
GateHour == 3

None == <<>>
Some(v) == <<v>>

\* The hours of the day a run is started at: both sides of the gate hour and
\* the ends of the day.
Hours == {0, GateHour - 1, GateHour, 23}

\* The processes that may execute main().  The scheduler is expected to run
\* one instance at a time: Spec lets only the processes of SeqProcs run.
Procs == {1, 2}
SeqProcs == {1}

\* ------------------------------------------------------------ image bytes
\* Leading bytes of the remote image, as the server may publish them.
PngImage == <<137, 80, 78, 71, 13>>
JpegImage == <<255, 216, 255>>
GifImage == <<71, 73, 70, 56, 57, 97>>
BmpImage == <<66, 77, 54>>
Images == {PngImage, JpegImage, GifImage, BmpImage}

\* bytes.startswith(prefix)
StartsWith(bytes, prefix) ==
    /\ Len(bytes) >= Len(prefix)
    /\ SubSeq(bytes, 1, Len(prefix)) = prefix

\* hashlib.sha256(image_content).hexdigest(), tabulated on Images (the
\* leading hex digits of the real digests); distinct contents have distinct
\* digests.
sha256_hexdigest(bytes) ==
    CASE bytes = PngImage -> "a8eb71013169"
      [] bytes = JpegImage -> "6e568e1f67fb"
      [] bytes = GifImage -> "610f5ae4d76e"
      [] bytes = BmpImage -> "c67f2f83d31a"

Hashes == {sha256_hexdigest(i) : i \in Images}

\* ------------------------------------------------------------ remote page
\* The pages requests.get(WEATHER_STORY_URL) can return, described by the
\* parts extract_story_content looks at.
\*   graphicast : the <div class="graphicast"> is present
\*   imgs       : the src attributes of the <img> tags inside the div, in
\*                document order; None for a tag without src attribute
\*   description: None when the div holds no <div class="description">
ImageUrl == "/images/gsp/weatherstory.png"
Pages ==
    [graphicast : BOOLEAN,
     imgs : {<<>>, <<None>>, <<Some("")>>, <<Some(ImageUrl)>>,
             <<None, Some(ImageUrl)>>},
     description : {None, Some("Sunny and warm.")}]
\* None stands for requests.get / raise_for_status raising.
PageResponses == {None} \cup {Some(page) : page \in Pages}

VARIABLES
    db,                 \* the DynamoDB item under PRIMARY_KEY
    remoteImage,        \* bytes currently served at the image URL
    clock_day,          \* the current Eastern calendar day
    pc,                 \* position of each process in main()
    now_hour,           \* now_eastern.hour
    today_str,          \* now_eastern.strftime('%Y-%m-%d')
    last_run_date,
    last_image_hash,
    image_url,
    description_text,
    image_content,
    current_image_hash,
    calls,              \* history: the I/O calls of the current run, in order
    dbAtStart,          \* history: the item when the current run started
    telegram,           \* history: the photo the chat received last
    prevFailed          \* history: image whose delivery failed in the run
                        \*          that ended just before the current one

vars == <<db, remoteImage, clock_day, pc, now_hour, today_str, last_run_date,
          last_image_hash, image_url, description_text, image_content,
          current_image_hash, calls, dbAtStart, telegram, prevFailed>>

locals == <<now_hour, today_str, last_run_date, last_image_hash, image_url,
            description_text, image_content, current_image_hash>>

\* --------------------------------------------------------- the stored item
\* The item is a dictionary: attribute name -> value.  NoItem is the absence
\* of the item itself (get_item's response then has no 'Item' key).
NoItem == None
EmptyItem == [setting |-> "image_status", last_run_date |-> None,
              image_hash |-> None]

\* response.get('Item', {})
ResponseItem(d) == IF d = NoItem THEN EmptyItem ELSE d[1]

\* Variant of UpdateItem: the update expression sets image_hash alone.
UpdateItem_HashOnly(d, run_date, image_hash) ==
    Some([ResponseItem(d) EXCEPT !.image_hash = Some(image_hash)])

\* table.update_item(... "SET last_run_date = :d, image_hash = :h" ...)
UpdateItem(d, run_date, image_hash) ==
    Some([ResponseItem(d) EXCEPT !.last_run_date = Some(run_date),
                                 !.image_hash = Some(image_hash)])

\* get_last_run_info(): the pair it returns for each outcome of get_item.
GetLastRunInfoResult(d, outcome) ==
    IF outcome = "ok"
    THEN <<ResponseItem(d).last_run_date, ResponseItem(d).image_hash>>
    ELSE <<None, None>>

\* ------------------------------------------------------------------- gate
\* Variant of Gate: the comparison written "<=" (hour 3 is rejected).
Gate_OffByOne(hour) == ~(hour <= GateHour)

\* main(): "if now_eastern.hour < 3: ... return"; TRUE when the run goes on.
Gate(hour) == ~(hour < GateHour)

\* ---------------------------------------------------------------- locator
\* Python truthiness of an optional string: "if not image_url".
Falsy(optstr) == optstr = None \/ optstr = Some("")

\* Variant of extract_story_content: the missing-container check is left out
\* and the image is looked up in the whole page.
extract_story_content_NoContainerCheck(response) ==
    IF response = None
    THEN <<None, None>>
    ELSE LET page == response[1]
             src == IF page.imgs = <<>> THEN None ELSE Head(page.imgs)
             text == IF page.description = None
                     THEN Some("") ELSE page.description
         IN  IF Falsy(src) THEN <<None, None>> ELSE <<src, text>>

\* Variant of extract_story_content: a missing description is an error too.
extract_story_content_DescriptionRequired(response) ==
    IF response = None
    THEN <<None, None>>
    ELSE LET page == response[1]
             src == IF page.imgs = <<>> THEN None ELSE Head(page.imgs)
         IN  IF ~page.graphicast THEN <<None, None>>
             ELSE IF Falsy(src) \/ page.description = None THEN <<None, None>>
             ELSE <<src, page.description>>

\* extract_story_content(): the pair (image_url, description_text).
extract_story_content(response) ==
    IF response = None
    THEN <<None, None>>                         \* RequestException
    ELSE LET page == response[1]
             src == IF page.imgs = <<>> THEN None ELSE Head(page.imgs)
             text == IF page.description = None
                     THEN Some("") ELSE page.description
         IN  IF ~page.graphicast THEN <<None, None>>
             ELSE IF Falsy(src) THEN <<None, None>>
             ELSE <<src, text>>

\* --------------------------------------------------------------- delivery
\* Variant of file_ext: the JPEG magic selects its own extension.
file_ext_Jpeg(bytes) ==
    IF StartsWith(bytes, <<137, 80, 78, 71>>) THEN "png"
    ELSE IF StartsWith(bytes, <<255, 216>>) THEN "jpeg"
    ELSE IF StartsWith(bytes, <<71, 73, 70, 56>>) THEN "gif"
    ELSE "png"

\* send_telegram_photo(): the file extension chosen from the magic bytes.
file_ext(bytes) ==
    IF StartsWith(bytes, <<137, 80, 78, 71>>) \/ StartsWith(bytes, <<255, 216>>)
    THEN "png"
    ELSE IF StartsWith(bytes, <<71, 73, 70, 56>>) THEN "gif"
    ELSE "png"

mime_type(bytes) == "image/" \o file_ext(bytes)

\* Outcomes of requests.post(...) followed by raise_for_status():
\*   ok          2xx response
\*   HTTPError   4xx/5xx response         (RequestException, caught)
\*   ConnectionError  network failure     (RequestException, caught)
\*   NoResponse  the endpoint never answers; the call has no timeout
PostOutcomes == {"ok", "HTTPError", "ConnectionError", "NoResponse"}
PostFailures == {"HTTPError", "ConnectionError"}

\* Where main() continues after send_telegram_photo returns or blocks.
AfterSend(outcome) == IF outcome = "NoResponse" THEN "hung" ELSE "update"

\* ------------------------------------------------------------ state store
\* Outcomes of a DynamoDB call:
\*   ok            the call succeeds
\*   ClientError   the service answers with an error (caught)
\*   BotoCoreError the service cannot be reached (not a ClientError: not caught)
StoreOutcomes == {"ok", "ClientError", "BotoCoreError"}

\* Variant of AfterRead: the ClientError of get_item is not caught.
AfterRead_Uncaught(outcome) == IF outcome = "ok" THEN "locate" ELSE "crashed"

\* Where main() continues after get_last_run_info.
AfterRead(outcome) == IF outcome = "BotoCoreError" THEN "crashed" ELSE "locate"

\* Where main() continues after update_run_info.
AfterUpdate(outcome) == IF outcome = "BotoCoreError" THEN "crashed" ELSE "done"

\* Variant of DbAfterUpdate: the item is changed although the call failed.
DbAfterUpdate_Partial(d, outcome, run_date, image_hash) ==
    UpdateItem(d, run_date, image_hash)

\* The item after update_run_info.
DbAfterUpdate(d, outcome, run_date, image_hash) ==
    IF outcome = "ok" THEN UpdateItem(d, run_date, image_hash) ELSE d

\* Variant of ImageIsNew: the digest is compared with the item as it is
\* stored at the moment of the comparison (as a conditional write would).
ImageIsNew_Reread(current, last) ==
    Some(current) # ResponseItem(db).image_hash

\* Variant of ImageIsNew: the comparison is skipped, every image is new.
ImageIsNew_Always(current, last) == TRUE

\* main(): "if current_image_hash == last_image_hash" is the unchanged case.
ImageIsNew(current, last) == Some(current) # last

Call(op, args, outcome) == [op |-> op, args |-> args, outcome |-> outcome]

\* ------------------------------------------------------------------- Init
Unset == [p \in Procs |-> None]

Init ==
    /\ db \in {NoItem, Some(EmptyItem)}
    /\ remoteImage \in Images
    /\ clock_day = 1
    /\ pc = [p \in Procs |-> "idle"]
    /\ now_hour = Unset
    /\ today_str = Unset
    /\ last_run_date = Unset
    /\ last_image_hash = Unset
    /\ image_url = Unset
    /\ description_text = Unset
    /\ image_content = Unset
    /\ current_image_hash = Unset
    /\ calls = [p \in Procs |-> <<>>]
    /\ dbAtStart = [p \in Procs |-> db]
    /\ telegram = None
    /\ prevFailed = None

\* ---------------------------------------------------------------- actions
Ended == {"idle", "done", "crashed"}

SendFailed(p) ==
    \E i \in 1..Len(calls[p]) :
        calls[p][i].op = "sendPhoto" /\ calls[p][i].outcome \in PostFailures

\* The scheduler invokes main(); lines 128-134: read the clock, apply the gate.
StartRun(p) ==
    /\ pc[p] \in Ended
    /\ \E hour \in Hours :
        /\ now_hour' = [now_hour EXCEPT ![p] = Some(hour)]
        /\ pc' = [pc EXCEPT ![p] = IF Gate(hour) THEN "read" ELSE "done"]
    /\ today_str' = [today_str EXCEPT ![p] = Some(clock_day)]
    /\ last_run_date' = [last_run_date EXCEPT ![p] = None]
    /\ last_image_hash' = [last_image_hash EXCEPT ![p] = None]
    /\ image_url' = [image_url EXCEPT ![p] = None]
    /\ description_text' = [description_text EXCEPT ![p] = None]
    /\ image_content' = [image_content EXCEPT ![p] = None]
    /\ current_image_hash' = [current_image_hash EXCEPT ![p] = None]
    /\ calls' = [calls EXCEPT ![p] = <<>>]
    /\ dbAtStart' = [dbAtStart EXCEPT ![p] = db]
    /\ prevFailed' = IF SendFailed(p) THEN image_content[p] ELSE None
    /\ UNCHANGED <<db, remoteImage, clock_day, telegram>>

\* Line 138: last_run_date, last_image_hash = get_last_run_info()
GetLastRunInfo(p) ==
    /\ pc[p] = "read"
    /\ \E outcome \in StoreOutcomes :
        /\ calls' = [calls EXCEPT ![p] = Append(@, Call("get_item", <<>>, outcome))]
        /\ pc' = [pc EXCEPT ![p] = AfterRead(outcome)]
        /\ IF AfterRead(outcome) = "crashed"
           THEN UNCHANGED <<last_run_date, last_image_hash>>
           ELSE /\ last_run_date' = [last_run_date EXCEPT ![p] =
                                        GetLastRunInfoResult(db, outcome)[1]]
                /\ last_image_hash' = [last_image_hash EXCEPT ![p] =
                                        GetLastRunInfoResult(db, outcome)[2]]
    /\ UNCHANGED <<db, remoteImage, clock_day, now_hour, today_str, image_url,
                   description_text, image_content, current_image_hash,
                   dbAtStart, telegram, prevFailed>>

\* Lines 141-145: image_url, description_text = extract_story_content()
ExtractStoryContent(p) ==
    /\ pc[p] = "locate"
    /\ \E response \in PageResponses :
        LET result == extract_story_content(response) IN
        /\ calls' = [calls EXCEPT ![p] = Append(@,
                        Call("GET page", <<response>>,
                             IF response = None THEN "RequestException" ELSE "ok"))]
        /\ image_url' = [image_url EXCEPT ![p] = result[1]]
        /\ description_text' = [description_text EXCEPT ![p] = result[2]]
        /\ pc' = [pc EXCEPT ![p] = IF Falsy(result[1]) THEN "done" ELSE "fetch"]
    /\ UNCHANGED <<db, remoteImage, clock_day, now_hour, today_str,
                   last_run_date, last_image_hash, image_content,
                   current_image_hash, dbAtStart, telegram, prevFailed>>

\* Lines 148-162: fetch the image, hash it, compare with the stored hash.
FetchImage(p) ==
    /\ pc[p] = "fetch"
    /\ \E outcome \in {"ok", "RequestException"} :
        /\ calls' = [calls EXCEPT ![p] = Append(@,
                        Call("GET image", <<image_url[p][1]>>, outcome))]
        /\ IF outcome = "ok"
           THEN /\ image_content' = [image_content EXCEPT ![p] = Some(remoteImage)]
                /\ current_image_hash' = [current_image_hash EXCEPT ![p] =
                                            Some(sha256_hexdigest(remoteImage))]
                /\ pc' = [pc EXCEPT ![p] =
                            IF ImageIsNew(sha256_hexdigest(remoteImage),
                                          last_image_hash[p])
                            THEN "send" ELSE "done"]
           ELSE /\ pc' = [pc EXCEPT ![p] = "done"]
                /\ UNCHANGED <<image_content, current_image_hash>>
    /\ UNCHANGED <<db, remoteImage, clock_day, now_hour, today_str,
                   last_run_date, last_image_hash, image_url, description_text,
                   dbAtStart, telegram, prevFailed>>

\* Line 165: send_telegram_photo(image_content, description_text)
SendTelegramPhoto(p) ==
    /\ pc[p] = "send"
    /\ \E outcome \in PostOutcomes :
        /\ calls' = [calls EXCEPT ![p] = Append(@,
                        Call("sendPhoto",
                             <<image_content[p][1], mime_type(image_content[p][1]),
                               description_text[p][1]>>,
                             outcome))]
        /\ telegram' = IF outcome = "ok" THEN image_content[p] ELSE telegram
        /\ pc' = [pc EXCEPT ![p] = AfterSend(outcome)]
    /\ UNCHANGED <<db, remoteImage, clock_day, locals, dbAtStart, prevFailed>>

\* Line 168: update_run_info(today_str, current_image_hash)
UpdateRunInfo(p) ==
    /\ pc[p] = "update"
    /\ \E outcome \in StoreOutcomes :
        /\ calls' = [calls EXCEPT ![p] = Append(@,
                        Call("update_item",
                             <<today_str[p][1], current_image_hash[p][1]>>,
                             outcome))]
        /\ db' = DbAfterUpdate(db, outcome, today_str[p][1],
                               current_image_hash[p][1])
        /\ pc' = [pc EXCEPT ![p] = AfterUpdate(outcome)]
    /\ UNCHANGED <<remoteImage, clock_day, locals, dbAtStart, telegram,
                   prevFailed>>

\* The weather office publishes another image.
PublishImage ==
    /\ \E img \in Images \ {remoteImage} : remoteImage' = img
    /\ UNCHANGED <<db, clock_day, pc, locals, calls, dbAtStart, telegram,
                   prevFailed>>

\* Midnight passes.
AdvanceDay ==
    /\ clock_day < MaxDay
    /\ clock_day' = clock_day + 1
    /\ UNCHANGED <<db, remoteImage, pc, locals, calls, dbAtStart, telegram,
                   prevFailed>>

Main(p) ==
    \/ StartRun(p)
    \/ GetLastRunInfo(p)
    \/ ExtractStoryContent(p)
    \/ FetchImage(p)
    \/ SendTelegramPhoto(p)
    \/ UpdateRunInfo(p)

Next ==
    \/ \E p \in SeqProcs : Main(p)
    \/ PublishImage
    \/ AdvanceDay

Spec == Init /\ [][Next]_vars

\* ---------------------------------------------------- overlapping runs
\* Nothing in the program keeps the scheduler from starting main() while
\* another instance is running.  SpecRace lets both processes run, each
\* inside the gate window, with a page that names the image and with a state
\* store and an image server that answer every call.
GoodPage == [graphicast |-> TRUE, imgs |-> <<Some(ImageUrl)>>,
             description |-> Some("Sunny and warm.")]

RaceScope(p) ==
    /\ now_hour[p] \in {None, Some(GateHour)}
    /\ \A i \in 1..Len(calls[p]) :
        /\ calls[p][i].op = "GET page" => calls[p][i].args[1] = Some(GoodPage)
        /\ calls[p][i].op # "sendPhoto" => calls[p][i].outcome = "ok"
        /\ calls[p][i].outcome # "NoResponse"

\* The images the weather office alternates between while the runs overlap.
RaceImages == {PngImage, GifImage}

InitRace == Init /\ remoteImage \in RaceImages

RaceNext ==
    \/ \E p \in Procs : Main(p) /\ RaceScope(p)'
    \/ PublishImage /\ remoteImage' \in RaceImages

SpecRace == InitRace /\ [][RaceNext]_vars

\* ------------------------------------------------- a state store that works
\* SpecStoreOk: non-overlapping runs in which every get_item and update_item
\* call succeeds.
StoreCallsOk(p) ==
    \A i \in 1..Len(calls[p]) :
        calls[p][i].op \in {"get_item", "update_item"}
            => calls[p][i].outcome = "ok"

NextStoreOk ==
    \/ \E p \in SeqProcs : Main(p) /\ StoreCallsOk(p)'
    \/ PublishImage
    \/ AdvanceDay

SpecStoreOk == Init /\ [][NextStoreOk]_vars

\* ------------------------------------------------------------ fair runs
\* SpecLive: the remote image no longer changes, the scheduler keeps starting
\* runs inside the gate window, every call returns, and each stage succeeds
\* again and again whenever it is tried again and again.
LiveScope(p) ==
    /\ now_hour[p] = None \/ Gate(now_hour[p][1])
    /\ pc[p] # "hung"

LastOutcome(p) == calls[p][Len(calls[p])].outcome

GoodRead(p) == GetLastRunInfo(p) /\ LastOutcome(p)' = "ok"
GoodLocate(p) == ExtractStoryContent(p) /\ pc'[p] = "fetch"
GoodFetch(p) == FetchImage(p) /\ LastOutcome(p)' = "ok"
GoodSend(p) == SendTelegramPhoto(p) /\ LastOutcome(p)' = "ok"
GoodUpdate(p) == UpdateRunInfo(p) /\ LastOutcome(p)' = "ok"

LiveNext == \E p \in SeqProcs : Main(p) /\ LiveScope(p)'

SpecLive ==
    /\ Init
    /\ [][LiveNext]_vars
    /\ WF_vars(LiveNext)
    /\ \A p \in SeqProcs :
        /\ SF_vars(GoodRead(p))
        /\ SF_vars(GoodLocate(p))
        /\ SF_vars(GoodFetch(p))
        /\ SF_vars(GoodSend(p))
        /\ SF_vars(GoodUpdate(p))

TypeOK ==
    /\ pc \in [Procs -> {"idle", "read", "locate", "fetch", "send", "update",
                         "done", "crashed", "hung"}]
    /\ remoteImage \in Images
    /\ clock_day \in 1..MaxDay
    /\ telegram \in {None} \cup {Some(i) : i \in Images}

\* ================================================================ claims
CallsOf(p, op) == SelectSeq(calls[p], LAMBDA c : c.op = op)
HasCall(p, op) == Len(CallsOf(p, op)) > 0
HasCallWith(p, op, outcomes) ==
    \E i \in 1..Len(calls[p]) :
        calls[p][i].op = op /\ calls[p][i].outcome \in outcomes
RunOver(p) == pc[p] \in {"done", "crashed"}
StoredHash == ResponseItem(db).image_hash

\* C1 (as claimed): in a run where the delivery call fails, update_run_info is
\* never invoked and the stored item stays as it was when the run started.
C1_FailureIsolation ==
    \A p \in SeqProcs :
        SendFailed(p) => ~HasCall(p, "update_item") /\ db = dbAtStart[p]

\* C2 (as claimed): when the previous run detected a new image and failed to
\* deliver it, a run that passes the gate and fetches the same image attempts
\* the delivery again.
C2_RetryByNextInvocation ==
    \A p \in SeqProcs :
        (prevFailed # None /\ image_content[p] = prevFailed)
            => (pc[p] = "send" \/ HasCall(p, "sendPhoto"))

\* C3: in a run where the digest of the fetched image equals the stored hash
\* read at the start of the run, neither sendPhoto nor update_item is called,
\* the run is over and the stored item is the one the run started with.
C3_UnchangedIdempotence ==
    \A p \in SeqProcs :
        (current_image_hash[p] # None
         /\ current_image_hash[p] = last_image_hash[p])
            => /\ ~HasCall(p, "sendPhoto")
               /\ ~HasCall(p, "update_item")
               /\ pc[p] = "done"
               /\ db = dbAtStart[p]

C3_Witness ==
    /\ pc[1] = "done"
    /\ current_image_hash[1] # None
    /\ current_image_hash[1] = last_image_hash[1]
    /\ HasCallWith(1, "GET image", {"ok"})

\* C4 (as claimed): a finished run whose fetched digest differs from the
\* stored one made exactly one sendPhoto call, with the fetched bytes, and
\* made exactly one update_item call, with (today, new digest) and after the
\* sendPhoto call, if and only if the delivery succeeded.
C4_OneDeliveryOneWrite ==
    \A p \in SeqProcs :
        (RunOver(p) /\ current_image_hash[p] # None
         /\ current_image_hash[p] # last_image_hash[p])
            => /\ Len(CallsOf(p, "sendPhoto")) = 1
               /\ CallsOf(p, "sendPhoto")[1].args[1] = image_content[p][1]
               /\ IF CallsOf(p, "sendPhoto")[1].outcome = "ok"
                  THEN /\ Len(CallsOf(p, "update_item")) = 1
                       /\ CallsOf(p, "update_item")[1].args
                            = <<today_str[p][1], current_image_hash[p][1]>>
                       /\ calls[p][Len(calls[p])].op = "update_item"
                  ELSE ~HasCall(p, "update_item")

\* C5: when get_item answers with no item, with an item that has no
\* image_hash, or with a ClientError, the run goes on to the locator with
\* last_image_hash = None, and once an image has been fetched the delivery
\* is attempted whatever the image is.
AbsentRead(p) ==
    \/ HasCallWith(p, "get_item", {"ClientError"})
    \/ /\ HasCallWith(p, "get_item", {"ok"})
       /\ ResponseItem(dbAtStart[p]).image_hash = None

C5_AbsentStateIsChange ==
    \A p \in SeqProcs :
        AbsentRead(p)
            => /\ last_image_hash[p] = None
               /\ pc[p] = "locate" \/ HasCall(p, "GET page")
               /\ image_content[p] # None
                    => (pc[p] = "send" \/ HasCall(p, "sendPhoto"))

C5_Witness ==
    /\ HasCallWith(1, "get_item", {"ClientError"})
    /\ StoredHash = current_image_hash[1]
    /\ StoredHash # None
    /\ HasCall(1, "sendPhoto")

\* C6: a run whose locator fails (page unreachable, container missing, no
\* image source) never calls the image fetch, sendPhoto or update_item; a
\* run whose image fetch fails never calls sendPhoto or update_item; in both
\* cases the run ends and the stored item is unchanged.
LocatorFailed(p) ==
    \E i \in 1..Len(calls[p]) :
        /\ calls[p][i].op = "GET page"
        /\ LET response == calls[p][i].args[1] IN
           \/ response = None
           \/ ~response[1].graphicast
           \/ response[1].imgs = <<>>
           \/ Falsy(Head(response[1].imgs))

C6_LocateFetchFailure ==
    \A p \in SeqProcs :
        /\ LocatorFailed(p)
            => /\ ~HasCall(p, "GET image")
               /\ ~HasCall(p, "sendPhoto")
               /\ ~HasCall(p, "update_item")
               /\ pc[p] = "done"
               /\ db = dbAtStart[p]
        /\ HasCallWith(p, "GET image", {"RequestException"})
            => /\ ~HasCall(p, "sendPhoto")
               /\ ~HasCall(p, "update_item")
               /\ pc[p] = "done"
               /\ db = dbAtStart[p]

C6_Witness ==
    /\ pc[1] = "done"
    /\ LocatorFailed(1)
    /\ \E i \in 1..Len(calls[1]) :
        /\ calls[1][i].op = "GET page"
        /\ calls[1][i].args[1] # None
        /\ ~calls[1][i].args[1][1].graphicast
        /\ calls[1][i].args[1][1].imgs = <<Some(ImageUrl)>>
    /\ StoredHash # None

\* C7: a started run goes past the gate exactly when its Eastern hour is 3
\* or later; a rejected run is over at once, has made no I/O call at all and
\* leaves the stored item unchanged.
C7_Gate ==
    \A p \in SeqProcs :
        now_hour[p] # None
            => /\ (pc[p] = "read" \/ Len(calls[p]) > 0) <=> now_hour[p][1] >= 3
               /\ now_hour[p][1] < 3
                    => /\ pc[p] = "done"
                       /\ calls[p] = <<>>
                       /\ db = dbAtStart[p]

C7_Witness ==
    /\ pc[1] = "done"
    /\ now_hour[1] = Some(2)
    /\ calls[1] = <<>>
    /\ StoredHash # None
    /\ StoredHash # Some(sha256_hexdigest(remoteImage))

\* C8: when sendPhoto succeeds and update_item then fails with a
\* ClientError, the run ends normally, the chat keeps the photo it received
\* and the stored item is the one the run started with.
C8_PersistFailureNonFatal ==
    \A p \in SeqProcs :
        (HasCallWith(p, "sendPhoto", {"ok"})
         /\ HasCallWith(p, "update_item", {"ClientError"}))
            => /\ pc[p] = "done"
               /\ telegram = image_content[p]
               /\ db = dbAtStart[p]

C8_Witness ==
    /\ HasCallWith(1, "sendPhoto", {"ok"})
    /\ HasCallWith(1, "update_item", {"ClientError"})
    /\ StoredHash # None
    /\ StoredHash # current_image_hash[1]

\* C9 (as claimed): every attachment is tagged image/gif when the bytes
\* begin with 'GIF8', image/png when they begin with the PNG magic,
\* image/jpeg when they begin with the JPEG magic, and the default type
\* otherwise.
ClaimedMime(bytes) ==
    IF StartsWith(bytes, <<71, 73, 70, 56>>) THEN "image/gif"
    ELSE IF StartsWith(bytes, <<137, 80, 78, 71>>) THEN "image/png"
    ELSE IF StartsWith(bytes, <<255, 216>>) THEN "image/jpeg"
    ELSE "image/png"

C9_MimeSniffingAsClaimed ==
    \A p \in SeqProcs : \A i \in 1..Len(calls[p]) :
        calls[p][i].op = "sendPhoto"
            => calls[p][i].args[2] = ClaimedMime(calls[p][i].args[1])

\* C9 (amended): every attachment is tagged image/gif when the bytes begin
\* with 'GIF8' and image/png in every other case: PNG magic, JPEG magic and
\* unrecognised bytes alike.
C9_MimeSniffing ==
    \A p \in SeqProcs : \A i \in 1..Len(calls[p]) :
        calls[p][i].op = "sendPhoto"
            => calls[p][i].args[2] =
                 IF StartsWith(calls[p][i].args[1], <<71, 73, 70, 56>>)
                 THEN "image/gif" ELSE "image/png"

C9_Witness ==
    /\ \E i \in 1..Len(calls[1]) :
        /\ calls[1][i].op = "sendPhoto"
        /\ calls[1][i].args[1] = JpegImage
        /\ calls[1][i].args[2] = "image/png"
        /\ calls[1][i].outcome = "ok"

\* C10 (as claimed): between runs the stored image_hash is absent or is the
\* digest of the image the chat received last.
C10_StoredHashInvariant ==
    (\A p \in SeqProcs : pc[p] \in Ended)
        => \/ StoredHash = None
           \/ /\ telegram # None
              /\ StoredHash = Some(sha256_hexdigest(telegram[1]))

\* C11: with overlapping runs nothing but the digest a run read itself
\* decides whether it delivers: a run that fetched an image whose digest
\* differs from the hash it read goes on to sendPhoto even when the other
\* run has delivered the same image and stored its digest in the meantime.
C11_OverlapRace ==
    \A p \in Procs :
        (image_content[p] # None
         /\ current_image_hash[p] # last_image_hash[p])
            => (pc[p] = "send" \/ HasCall(p, "sendPhoto"))

\* Both runs read the same old digest before either wrote, both compared the
\* same new image as changed and both delivered it.
C11_Witness ==
    /\ \A p \in Procs :
        /\ HasCallWith(p, "get_item", {"ok"})
        /\ HasCallWith(p, "sendPhoto", {"ok"})
        /\ ~HasCall(p, "update_item")
        /\ last_image_hash[p] = StoredHash
    /\ StoredHash # None
    /\ image_content[1] = image_content[2]
    /\ telegram = image_content[1]

\* C12: the stored item has last_run_date and image_hash either both absent
\* or both present, and every change of the item sets the two attributes to
\* the date and the digest of one and the same run.
C12_WrittenTogether ==
    /\ [](ResponseItem(db).last_run_date = None
            <=> ResponseItem(db).image_hash = None)
    /\ [][db' # db =>
            \E p \in Procs :
                /\ today_str[p] # None
                /\ current_image_hash[p] # None
                /\ ResponseItem(db').last_run_date = today_str[p]
                /\ ResponseItem(db').image_hash = current_image_hash[p]]_vars

C12_Witness ==
    /\ HasCallWith(1, "update_item", {"ok"})
    /\ ResponseItem(db).last_run_date = today_str[1]
    /\ ResponseItem(db).image_hash = current_image_hash[1]
    /\ ResponseItem(dbAtStart[1]).image_hash # None
    /\ ResponseItem(dbAtStart[1]).image_hash # current_image_hash[1]
    /\ ResponseItem(dbAtStart[1]).last_run_date # today_str[1]

\* C13 (as claimed): every I/O call is bounded by a timeout, so no run is
\* ever left blocked in a call to an endpoint that does not answer.
C13_EveryRunTerminates ==
    \A p \in SeqProcs : pc[p] # "hung"

\* C14 (as claimed): every failure of an I/O stage, network-level failures
\* of the state store included, is caught at that stage; no run ends with an
\* uncaught exception.
C14_NoUncaughtFault ==
    \A p \in SeqProcs : pc[p] # "crashed"

\* C15 (as claimed): extract_story_content returns no URL exactly when the
\* page cannot be fetched, the graphicast container is absent, or the
\* container holds no image with a non-empty source; with container and
\* image source present and the description missing it returns that URL and
\* an empty caption.
NonEmptySources(page) ==
    {i \in 1..Len(page.imgs) : ~Falsy(page.imgs[i])}

C15_LocatorOutcomesAsClaimed ==
    \A p \in SeqProcs : \A i \in 1..Len(calls[p]) :
        calls[p][i].op = "GET page" =>
            LET response == calls[p][i].args[1] IN
            /\ image_url[p] = None
                <=> \/ response = None
                    \/ ~response[1].graphicast
                    \/ NonEmptySources(response[1]) = {}
            /\ (/\ response # None
                /\ response[1].graphicast
                /\ NonEmptySources(response[1]) # {}
                /\ response[1].description = None)
                    => /\ image_url[p] \in
                            {response[1].imgs[k] : k \in NonEmptySources(response[1])}
                       /\ description_text[p] = Some("")

\* C15 (amended): extract_story_content returns no URL exactly when the page
\* cannot be fetched, the graphicast container is absent, or the first image
\* inside the container is missing or has no non-empty source; otherwise it
\* returns the first image's source, with the description's text as caption
\* or an empty caption when the description is missing.
C15_LocatorOutcomes ==
    \A p \in SeqProcs : \A i \in 1..Len(calls[p]) :
        calls[p][i].op = "GET page" =>
            LET response == calls[p][i].args[1] IN
            IF \/ response = None
               \/ ~response[1].graphicast
               \/ response[1].imgs = <<>>
               \/ Falsy(Head(response[1].imgs))
            THEN image_url[p] = None /\ description_text[p] = None
            ELSE /\ image_url[p] = Head(response[1].imgs)
                 /\ description_text[p] =
                        IF response[1].description = None
                        THEN Some("") ELSE response[1].description

C15_Witness ==
    /\ \E i \in 1..Len(calls[1]) :
        /\ calls[1][i].op = "GET page"
        /\ calls[1][i].args[1] =
             Some([graphicast |-> TRUE, imgs |-> <<Some(ImageUrl)>>,
                   description |-> None])
    /\ image_url[1] = Some(ImageUrl)
    /\ description_text[1] = Some("")
    /\ pc[1] = "fetch"

\* C16 (as claimed): with a state store that never fails, a run that reads
\* the digest of the photo the chat received last and fetches that same
\* image does not deliver it again, and a successful delivery never carries
\* the image of the successful delivery before it.
C16_NoDuplicateDelivery ==
    /\ [](\A p \in SeqProcs :
            (/\ telegram # None
             /\ image_content[p] = telegram
             /\ last_image_hash[p] = current_image_hash[p])
                => ~HasCall(p, "sendPhoto"))
    /\ [][\A p \in SeqProcs :
            (pc[p] = "send" /\ pc'[p] = "update" /\ LastOutcome(p)' = "ok")
                => telegram # image_content[p]]_vars

\* C17 (as claimed): once the remote image stays the same, runs keep being
\* started inside the gate window and every stage keeps succeeding when
\* retried, the image is eventually delivered and its digest stored.
C17_EventualDelivery ==
    <>(/\ telegram = Some(remoteImage)
       /\ StoredHash = Some(sha256_hexdigest(remoteImage)))

====
